---- MODULE Spec2Model ----
(***************************************************************************)
(* hh_auto_apply: the batch loop of App.run (src/hh_auto_apply/app.py) and *)
(* the per-listing workflow of HHClient (src/hh_auto_apply/client.py).     *)
(*                                                                         *)
(* The browser page is the environment: every probe of the page (a         *)
(* visibility wait, an attribute read, a read-back of a field) draws its   *)
(* answer afresh, because the page may change between two probes.          *)
(*                                                                         *)
(* Texts are represented by their length.  URLs are sequences of tokens:   *)
(* "/", "?", the word "vacancy", digits and other characters.              *)
(*                                                                         *)
(* Five specifications:                                                    *)
(*   Spec        App.run as started by run.py: the configuration is the    *)
(*               Config dataclass of config.py.                            *)
(*   SpecLive    Spec, with weak fairness of the steps of run(): a call    *)
(*               that run() makes returns or raises.                       *)
(*   SpecClient  one call of a public method of HHClient by a caller, with *)
(*               any configuration object handed to HHClient.__init__.     *)
(*   SpecHelpers one helper called on its own: extract_vacancy_id, the     *)
(*               read-back check, find_enabled_submit, get_apply_button,   *)
(*               select_specific_resume, check_consents_if_needed (one     *)
(*               call, and two calls on a fixed page) and                  *)
(*               SeenRepo.mark_seen.                                       *)
(*   SpecHappy   apply_to_vacancy on a page on which every step works.     *)
(***************************************************************************)
EXTENDS Integers, Sequences, FiniteSets, TLC

\* ------------------------------------------------------------------ bounds

MaxApplies == 1
MaxPages == 2
MaxTolerance == 2
MaxLinks == 2
\* how many of the phrases, or of the apply candidates, are visible at once
MaxVisible == 2

\* ------------------------------------------------------- program constants

\* Selectors.ALREADY_APPLIED_TEXT holds four phrases.
NumPhrases == 4
\* get_apply_button probes six candidate locators.
NumApplyCandidates == 6
\* range(3) of the cover-letter loop, and its three textarea selectors.
FillAttempts == 3
NumTextareaSelectors == 3
\* range(3) of the submit loop, and its four submit selectors.
SubmitCycles == 3
NumSubmitCandidates == 4
\* the floor of the read-back threshold, min(20, len(cover_text) // 2).
ReadbackFloor == 20

\* The fields the Config dataclass declares.
ConfigFields ==
    { "search_query", "region_ids", "remote_only", "max_applies", "min_sleep",
      "max_sleep", "persist_dir", "screenshots_dir", "db_path", "seen_ttl_days",
      "resume_match", "fail_if_resume_not_found", "require_cover_letter",
      "cover_letter_path", "base_url", "max_pages", "empty_pages_tolerance",
      "headless", "slow_mo_ms", "verbose", "vacancies_csv" }

\* The attributes apply_to_vacancy and _generate_cover_letter read besides.
AIFields == { "use_ai_cover_letter", "openrouter_api_key", "ai_prompt_path", "ai_model" }

\* The names bound at module level in client.py (its imports and its class).
ClientGlobals ==
    { "annotations", "datetime", "Path", "Dict", "List", "urlencode", "logger",
      "BrowserContext", "Page", "PWTimeoutError", "requests", "json", "Config",
      "ApplyResult", "Selectors", "human_pause", "HHClient" }

\* ApplyResult
SUCCESS == "success"
SKIPPED_ALREADY_APPLIED == "skipped_already_applied"
ERROR == "error"

\* ------------------------------------------------------------------- URLs

Digits == { "1", "2" }

UrlA == << "/", "vacancy", "/", "1" >>
UrlB == << "/", "vacancy", "/", "2" >>
\* another host, the same listing as UrlA
UrlC == << "h", "/", "vacancy", "/", "1" >>
UrlPool == { UrlA, UrlB, UrlC }

SetMin(S) == CHOOSE x \in S : \A y \in S : x <= y
SetMax(S) == CHOOSE x \in S : \A y \in S : x >= y

\* VAC_ID_RE.search: the positions where "/vacancy/" and a digit start.
VacIdMatches(url) ==
    { i \in 1..Len(url) :
        /\ i + 3 <= Len(url)
        /\ url[i] = "/"
        /\ url[i + 1] = "vacancy"
        /\ url[i + 2] = "/"
        /\ url[i + 3] \in Digits }

\* (\d+): the longest run of digits from position j on.
RECURSIVE DigitRun(_, _)
DigitRun(url, j) ==
    IF j <= Len(url) /\ url[j] \in Digits
    THEN << url[j] >> \o DigitRun(url, j + 1)
    ELSE << >>

\* s.split(sep)[-1]
SplitLast(s, sep) ==
    LET P == { i \in 1..Len(s) : s[i] = sep }
    IN  IF P = {} THEN s ELSE SubSeq(s, SetMax(P) + 1, Len(s))

\* s.split(sep)[0]
SplitFirst(s, sep) ==
    LET P == { i \in 1..Len(s) : s[i] = sep }
    IN  IF P = {} THEN s ELSE SubSeq(s, 1, SetMin(P) - 1)

extract_vacancy_id(url) ==
    IF VacIdMatches(url) # {}
    THEN DigitRun(url, SetMin(VacIdMatches(url)) + 3)
    ELSE SplitFirst(SplitLast(url, "/"), "?")

VacIds == { extract_vacancy_id(u) : u \in UrlPool }

\* list_vacancy_links_on_page returns list(set): distinct links, in any order.
SearchPages ==
    { ls \in UNION { [1..n -> UrlPool] : n \in 0..MaxLinks } :
        \A i, j \in 1..Len(ls) : i # j => ls[i] # ls[j] }

\* ------------------------------------------------------------------ state

VARIABLES
    cfg,            \* the configuration object: the fields the code reads
    dry_run,        \* App.dry_run
    stop,           \* App._stop
    pc,             \* where App.run is
    applies_done,   \* App.run's local counter
    page_num,       \* App.run's local
    empty_pages,    \* App.run's local
    stats,          \* Stats
    seen,           \* the ids in seen_vacancies
    links,          \* the links of the search page still to iterate
    vurl,           \* the listing of the current iteration
    result,         \* (result, title) of the current iteration
    csv,            \* the calls of _append_vacancy_to_csv: the title passed, and
                    \* whether the row was written
    markSeenCalls,  \* the ids passed to mark_seen, in order
    stopInFlight,   \* App.stop ran while apply_to_vacancy was in flight
    cover_text,     \* len(cover_text) handed to the method called
    entry,          \* the HHClient method called by the caller
    av,             \* the frame of apply_to_vacancy
    sb,             \* the frame of add_cover_letter_and_submit
    did,            \* the page interactions performed during the call
    shots,          \* the tags make_shot was called with during the call
    hp              \* the frame of a helper called on its own

vars ==
    << cfg, dry_run, stop, pc, applies_done, page_num, empty_pages, stats, seen,
       links, vurl, result, csv, markSeenCalls, stopInFlight, cover_text, entry,
       av, sb, did, shots, hp >>

runVars ==
    << dry_run, stop, pc, applies_done, page_num, empty_pages, stats, seen,
       links, vurl, result, csv, markSeenCalls, stopInFlight >>

callVars == << cover_text, entry, av, sb, did, shots >>

\* len(cover_text) of a non-empty cover letter, and the lengths a read-back
\* of the textarea may have after strip().
CoverLens == { 1, 5, 41 }
ReadbackLens == { 0, 2, 19, 20 }
\* len of the letter _generate_cover_letter returns (0: it returned "").
GeneratedLens == { 0, 30 }
\* what page.title() / inner_text() may give after strip().
Titles == { "", "T" }

Unbound == "<unbound>"

\* No helper is being called on its own.
HpIdle == [ op |-> "none" ]

\* apply_to_vacancy before its first statement.
AvIdle ==
    [ apc |-> "idle", page |-> "none", title |-> Unbound, exc |-> "none",
      ret |-> "none", closeAttempts |-> 0,
      first |-> [ checked |-> FALSE, phrase |-> FALSE, button |-> FALSE ],
      apply_btn |-> 0, final_cover_text |-> 0 ]

\* add_cover_letter_and_submit (and the helper it is in) before its first
\* statement.
SbIdle ==
    [ letter_ok |-> FALSE, attempt |-> 0, sel |-> 1, fills |-> 0, accepts |-> 0,
      selected_exact |-> FALSE, cycle |-> 0, probes |-> 0, cand |-> 1, btn |-> 0,
      retry |-> FALSE, clicks |-> 0, confirmed |-> FALSE, ok |-> FALSE,
      resumes |-> 0, consents |-> 0, gone |-> FALSE ]

\* run() before apply_to_vacancy has returned anything.
NoResult == [ result |-> "none", title |-> "" ]

StatsZero ==
    [ found_links |-> 0, skipped_seen |-> 0, skipped_already |-> 0,
      opened |-> 0, applies_done |-> 0, errors |-> 0 ]

\* a bump that adds one whatever inc is.
bump_one(st, key, inc) == [ st EXCEPT ![key] = @ + 1 ]

\* Stats.bump
bump(st, key, inc) == [ st EXCEPT ![key] = @ + inc ]

\* getattr(self.cfg, name) succeeds: a frozen dataclass has its declared
\* fields only; cfg.ai = "absent" is the Config of config.py.
HasAttr(name) == name \in ConfigFields \/ (cfg.ai # "absent" /\ name \in AIFields)

\* a seen-store that never finds an id.
is_seen_never(vac_id) == FALSE

\* SeenRepo.is_seen
is_seen(vac_id) == vac_id \in seen

\* ------------------------------------------------------------- page probes

\* get_apply_button that returns the last visible candidate.
get_apply_button_last(visible) ==
    IF visible = {} THEN 0 ELSE SetMax(visible)

\* get_apply_button: the first candidate, in the listed order, that is
\* visible; 0 stands for None.  visible: the candidates is_visible accepts.
get_apply_button(visible) ==
    IF visible = {} THEN 0 ELSE SetMin(visible)

\* already_applied that is positive whatever the page shows.
already_applied_always(phrases, visible) ==
    TRUE

\* already_applied that looks at the phrases only.
already_applied_phrases_only(phrases, visible) ==
    phrases # {}

\* already_applied: a confirmation phrase is visible, or there is no apply
\* button.
already_applied(phrases, visible) ==
    IF phrases # {} THEN TRUE ELSE get_apply_button(visible) = 0

PhraseViews == { S \in SUBSET (1..NumPhrases) : Cardinality(S) <= MaxVisible }
ButtonViews == { S \in SUBSET (1..NumApplyCandidates) : Cardinality(S) <= MaxVisible }

\* What one call of already_applied may see of the page: the visible
\* phrases and, when none is visible, the visible apply candidates (the
\* candidates are probed only after every phrase has failed to show).
AppliedViews ==
    { [ phrases |-> P, visible |-> {} ] : P \in PhraseViews \ { {} } }
    \cup { [ phrases |-> {}, visible |-> V ] : V \in ButtonViews }

\* -------------------------------------------------------------- App.run

\* signal handler App.stop: may run between any two steps of run().
Stop ==
    /\ pc \in { "while", "load", "for", "iter", "apply", "mark", "count", "report" }
    /\ ~stop
    /\ stop' = TRUE
    /\ stopInFlight' = (stopInFlight \/ pc = "apply")
    /\ UNCHANGED << hp, cfg, dry_run, pc, applies_done, page_num, empty_pages, stats,
                    seen, links, vurl, result, csv, markSeenCalls, callVars >>

\* line 88: the while condition.
RunWhile ==
    /\ pc = "while"
    /\ pc' = IF ~stop /\ applies_done < cfg.max_applies /\ page_num < cfg.max_pages
             THEN "load" ELSE "report"
    /\ UNCHANGED << hp, cfg, dry_run, stop, applies_done, page_num, empty_pages, stats,
                    seen, links, vurl, result, csv, markSeenCalls, stopInFlight,
                    callVars >>

\* a run of empty pages that never ends the search.
EmptyPagesNeverExhausted(n) ==
    FALSE

\* line 97: empty_pages >= self.cfg.empty_pages_tolerance
EmptyPagesExhausted(n) ==
    n >= cfg.empty_pages_tolerance

\* lines 89-105: load the search page and list its links.
RunLoadPage ==
    /\ pc = "load"
    /\ \E ls \in SearchPages :
          IF ls = << >>
          THEN /\ empty_pages' = empty_pages + 1
               /\ IF EmptyPagesExhausted(empty_pages + 1)
                  THEN pc' = "report" /\ page_num' = page_num
                  ELSE pc' = "while" /\ page_num' = page_num + 1
               /\ UNCHANGED << stats, links >>
          ELSE /\ empty_pages' = 0
               /\ stats' = bump(stats, "found_links", Len(ls))
               /\ links' = ls
               /\ pc' = "for"
               /\ page_num' = page_num
    /\ UNCHANGED << hp, cfg, dry_run, stop, applies_done, seen, vurl, result, csv,
                    markSeenCalls, stopInFlight, callVars >>

\* the breaks of the listing loop, without the check of the cap.
ForBreaksOnStopOnly ==
    stop

\* the breaks of the listing loop, without the check of the stop flag.
ForBreaksOnCapOnly ==
    applies_done >= cfg.max_applies

\* lines 108-111: the two breaks of the listing loop.
ForBreaks ==
    stop \/ applies_done >= cfg.max_applies

\* lines 107-111 and 144: the next listing of the page, or the end of the page.
RunFor ==
    /\ pc = "for"
    /\ IF links = << >> \/ ForBreaks
       THEN /\ pc' = "while"
            /\ page_num' = page_num + 1
            /\ links' = << >>
            /\ vurl' = << >>
       ELSE /\ pc' = "iter"
            /\ vurl' = Head(links)
            /\ links' = Tail(links)
            /\ page_num' = page_num
    /\ UNCHANGED << hp, cfg, dry_run, stop, applies_done, empty_pages, stats, seen,
                    result, csv, markSeenCalls, stopInFlight, callVars >>

\* a run that ignores --dry-run.
TakesDryRunBranchNever ==
    FALSE

\* line 121: if self.dry_run.
TakesDryRunBranch ==
    dry_run

\* lines 113-125: skip a seen listing, else open it (or pretend to, in a dry run).
RunIter ==
    /\ pc = "iter"
    /\ IF is_seen(extract_vacancy_id(vurl))
       THEN /\ stats' = bump(stats, "skipped_seen", 1)
            /\ pc' = "for"
            /\ UNCHANGED << result, av, sb, did, shots >>
       ELSE IF TakesDryRunBranch
       THEN /\ stats' = bump(stats, "opened", 1)
            /\ result' = [ result |-> SUCCESS, title |-> "(dry-run)" ]
            /\ pc' = "mark"
            /\ UNCHANGED << av, sb, did, shots >>
       ELSE /\ stats' = bump(stats, "opened", 1)
            /\ pc' = "apply"
            /\ av' = [ AvIdle EXCEPT !.apc = "new_page" ]
            /\ sb' = SbIdle
            /\ did' = {}
            /\ shots' = {}
            /\ UNCHANGED result
    /\ UNCHANGED << hp, cfg, dry_run, stop, applies_done, page_num, empty_pages, seen,
                    links, vurl, csv, markSeenCalls, stopInFlight, cover_text, entry >>

\* line 125: apply_to_vacancy returned its (result, title).
RunApplyReturned ==
    /\ pc = "apply"
    /\ av.apc = "exit"
    /\ av.exc = "none"
    /\ result' = [ result |-> av.ret, title |-> av.title ]
    /\ pc' = "mark"
    /\ av' = AvIdle
    /\ sb' = SbIdle
    /\ did' = {}
    /\ shots' = {}
    /\ UNCHANGED << hp, cfg, dry_run, stop, applies_done, page_num, empty_pages, stats,
                    seen, links, vurl, csv, markSeenCalls, stopInFlight, cover_text,
                    entry >>

\* line 125: apply_to_vacancy raised; run() has no handler, the exception
\* leaves run().
RunApplyRaised ==
    /\ pc = "apply"
    /\ av.apc = "exit"
    /\ av.exc # "none"
    /\ pc' = "crashed"
    /\ av' = [ AvIdle EXCEPT !.exc = av.exc ]
    /\ sb' = SbIdle
    /\ did' = {}
    /\ shots' = {}
    /\ UNCHANGED << hp, cfg, dry_run, stop, applies_done, page_num, empty_pages, stats,
                    seen, links, vurl, result, csv, markSeenCalls, stopInFlight,
                    cover_text, entry >>

\* SeenRepo.mark_seen: INSERT OR IGNORE; a failure is swallowed.
mark_seen(vac_id) ==
    \E failed \in BOOLEAN :
        seen' = IF failed THEN seen ELSE seen \cup { vac_id }

\* line 127
RunMarkSeen ==
    /\ pc = "mark"
    /\ mark_seen(extract_vacancy_id(vurl))
    /\ markSeenCalls' = Append(markSeenCalls, extract_vacancy_id(vurl))
    /\ pc' = "count"
    /\ UNCHANGED << hp, cfg, dry_run, stop, applies_done, page_num, empty_pages, stats,
                    links, vurl, result, csv, stopInFlight, callVars >>

\* a listing counted as applied whatever apply_to_vacancy returned, except
\* for a listing that was already applied to.
CountsErrorsAsApplied(res) ==
    res \in { SUCCESS, ERROR }

\* line 129: result is ApplyResult.SUCCESS.
CountsAsApplied(res) ==
    res = SUCCESS

\* line 133: title if title else vurl.
CsvTitle(title) ==
    IF title # "" THEN title ELSE "<url>"

\* lines 129-142: count the result; a SUCCESS is appended to the CSV, and a
\* failure of the append is swallowed.
RunCount ==
    /\ pc = "count"
    /\ IF CountsAsApplied(result.result)
       THEN /\ applies_done' = applies_done + 1
            /\ stats' = bump(stats, "applies_done", 1)
            /\ \E written \in BOOLEAN :
                  csv' = Append(csv, [ title   |-> CsvTitle(result.title),
                                       written |-> written ])
       ELSE IF result.result = SKIPPED_ALREADY_APPLIED
       THEN /\ stats' = bump(stats, "skipped_already", 1)
            /\ UNCHANGED << applies_done, csv >>
       ELSE /\ stats' = bump(stats, "errors", 1)
            /\ UNCHANGED << applies_done, csv >>
    /\ pc' = "for"
    /\ result' = NoResult
    /\ UNCHANGED << hp, cfg, dry_run, stop, page_num, empty_pages, seen, links, vurl,
                    markSeenCalls, stopInFlight, callVars >>

\* lines 146-157: the report; run() returns.
RunReport ==
    /\ pc = "report"
    /\ pc' = "done"
    /\ UNCHANGED << hp, cfg, dry_run, stop, applies_done, page_num, empty_pages, stats,
                    seen, links, vurl, result, csv, markSeenCalls, stopInFlight,
                    callVars >>

\* ----------------------------------------------------- apply_to_vacancy

\* Neither the App nor the configuration changes during a call.
CallFrame == UNCHANGED << hp, cfg, runVars, cover_text, entry >>

\* line 411: context.new_page(); it may time out or fail otherwise, and
\* then title is not yet bound.
ApplyNewPage ==
    /\ av.apc = "new_page"
    /\ \E o \in { "ok", "PWTimeoutError", "Error" } :
          av' = IF o = "ok"
                THEN [ av EXCEPT !.page = "open", !.apc = "goto" ]
                ELSE [ av EXCEPT !.exc = o, !.apc = "except" ]
    /\ UNCHANGED << sb, did, shots >>
    /\ CallFrame

\* lines 412-416: title = "", then page.goto(url, timeout=30000).
ApplyGoto ==
    /\ av.apc = "goto"
    /\ \E o \in { "ok", "PWTimeoutError", "Error" } :
          av' = IF o = "ok"
                THEN [ av EXCEPT !.title = "", !.apc = "title" ]
                ELSE [ av EXCEPT !.title = "", !.exc = o, !.apc = "except" ]
    /\ UNCHANGED << sb, did, shots >>
    /\ CallFrame

\* lines 418-438: the title, by the selector chain, else page.title(), else "";
\* every exception is swallowed.
ApplyTitle ==
    /\ av.apc = "title"
    /\ \E t \in Titles : av' = [ av EXCEPT !.title = t, !.apc = "already_applied" ]
    /\ UNCHANGED << sb, did, shots >>
    /\ CallFrame

\* lines 440-443: the first already_applied check.
ApplyAlreadyApplied ==
    /\ av.apc = "already_applied"
    /\ \E view \in AppliedViews :
          LET seenNow == [ checked |-> TRUE, phrase |-> view.phrases # {},
                           button |-> get_apply_button(view.visible) # 0 ]
          IN  av' = IF already_applied(view.phrases, view.visible)
                    THEN [ av EXCEPT !.first = seenNow,
                                     !.ret = SKIPPED_ALREADY_APPLIED,
                                     !.apc = "finally" ]
                    ELSE [ av EXCEPT !.first = seenNow, !.apc = "get_apply_button" ]
    /\ UNCHANGED << sb, did, shots >>
    /\ CallFrame

\* line 445: apply_btn = self.get_apply_button(page)
ApplyGetButton ==
    /\ av.apc = "get_apply_button"
    /\ \E visible \in ButtonViews :
          av' = [ av EXCEPT !.apply_btn = get_apply_button(visible), !.apc = "ai_flag" ]
    /\ UNCHANGED << sb, did, shots >>
    /\ CallFrame

\* What the AI step gives: "off" (not asked for), "none" (no description
\* found, or the generator caught its own failure and returned ""), a letter
\* of length n, or "raise" (the generator let an exception out: reading the
\* prompt file failed other than by FileNotFoundError, str.format failed, or
\* the response was not of the expected shape in a way other than
\* KeyError/IndexError).
AIOutcomes ==
    IF cfg.ai = "on"
    THEN { [ kind |-> "none", len |-> 0 ], [ kind |-> "raise", len |-> 0 ] }
         \cup { [ kind |-> "letter", len |-> n ] : n \in GeneratedLens }
    ELSE { [ kind |-> "off", len |-> 0 ] }

\* lines 446-456: the cover letter for this listing.  Reading
\* cfg.use_ai_cover_letter raises AttributeError on a configuration that does
\* not declare it.  apply_btn is not read again once an exception is in
\* flight.
ApplyCoverText ==
    /\ av.apc = "ai_flag"
    /\ IF ~HasAttr("use_ai_cover_letter")
       THEN /\ av' = [ av EXCEPT !.exc = "AttributeError", !.apc = "except",
                                     !.apply_btn = 0 ]
            /\ UNCHANGED did
       ELSE \E g \in AIOutcomes :
              /\ av' = IF g.kind = "raise"
                       THEN [ av EXCEPT !.exc = "Error", !.apc = "except",
                                        !.apply_btn = 0 ]
                       ELSE [ av EXCEPT
                                !.final_cover_text =
                                    IF g.len > 0 THEN g.len ELSE cover_text,
                                !.apc = "click_apply" ]
              /\ UNCHANGED did
    /\ UNCHANGED << sb, shots >>
    /\ CallFrame

\* lines 458-474: click the apply button (a failure of the click is
\* swallowed), wait, and confirm the foreign-country modal if it shows.
\* page.wait_for_timeout at line 463 is outside any try.
ApplyClick ==
    /\ av.apc = "click_apply"
    /\ IF av.apply_btn # 0
       THEN \E o \in { "ok", "Error" } :
              /\ av' = IF o = "Error"
                       THEN [ av EXCEPT !.apply_btn = 0, !.exc = o, !.apc = "except" ]
                       ELSE [ av EXCEPT !.apply_btn = 0, !.apc = "fill_toggle" ]
              /\ did' = did \cup { "apply_click" }
       ELSE /\ av' = [ av EXCEPT !.apc = "fill_toggle" ]
            /\ UNCHANGED did
    /\ UNCHANGED << sb, shots >>
    /\ CallFrame

\* line 480: ok = add_cover_letter_and_submit(...) returned to apply_to_vacancy.
ApplySubmitReturned ==
    /\ av.apc = "acls_return"
    /\ entry = "apply_to_vacancy"
    /\ av' = [ av EXCEPT !.ret = IF sb.ok THEN SUCCESS ELSE ERROR, !.apc = "finally" ]
    /\ sb' = SbIdle
    /\ UNCHANGED << did, shots >>
    /\ CallFrame

\* make_shot: page.screenshot in a try; the tag is recorded when there is a
\* page to photograph.
make_shot(tag) == IF av.page = "none" THEN shots ELSE shots \cup { tag }

\* A name used in an except clause is looked up when the clause is reached.
NameDefined(name) == name \in ClientGlobals

\* the except clauses without the screenshot of the timeout.
ApplyExceptNoShot ==
    /\ av.apc = "except"
    /\ av' = IF av.exc = "PWTimeoutError" /\ av.title # Unbound
             THEN [ av EXCEPT !.exc = "none", !.ret = ERROR, !.apc = "finally" ]
             ELSE [ av EXCEPT !.exc = "NameError", !.apc = "finally" ]
    /\ UNCHANGED << sb, did, shots >>
    /\ CallFrame

\* lines 482-521: the except clauses, tried in order.
\*   PWTimeoutError: screenshot, return ERROR, title (title may be unbound).
\*   otherwise `except TargetClosedError` is evaluated: the name is not
\*   defined in client.py, NameError replaces the exception in flight.
ApplyExcept ==
    /\ av.apc = "except"
    /\ IF av.exc = "PWTimeoutError"
       THEN /\ shots' = make_shot("vacancy_timeout")
            /\ av' = IF av.title = Unbound
                     THEN [ av EXCEPT !.exc = "UnboundLocalError", !.apc = "finally" ]
                     ELSE [ av EXCEPT !.exc = "none", !.ret = ERROR, !.apc = "finally" ]
       ELSE IF ~NameDefined("TargetClosedError")
       THEN /\ av' = [ av EXCEPT !.exc = "NameError", !.apc = "finally" ]
            /\ UNCHANGED shots
       ELSE /\ shots' = make_shot("error")
            /\ av' = IF av.title = Unbound
                     THEN [ av EXCEPT !.exc = "UnboundLocalError", !.apc = "finally" ]
                     ELSE [ av EXCEPT !.exc = "none", !.ret = ERROR, !.apc = "finally" ]
    /\ UNCHANGED << sb, did >>
    /\ CallFrame

\* apply_to_vacancy without its finally clause.
ApplyFinallyNoClose ==
    /\ av.apc = "finally"
    /\ av' = [ av EXCEPT !.apc = "exit" ]
    /\ UNCHANGED << sb, did, shots >>
    /\ CallFrame

\* lines 522-527: finally: page.close() if there is a page; a failure of
\* close is logged and swallowed.  The pending return value or exception is
\* what the caller gets.
ApplyFinally ==
    /\ av.apc = "finally"
    /\ IF av.page = "none"
       THEN av' = [ av EXCEPT !.apc = "exit" ]
       ELSE \E closed \in BOOLEAN :
              av' = [ av EXCEPT !.closeAttempts = @ + 1,
                                !.page = IF closed THEN "closed" ELSE "open",
                                !.apc = "exit" ]
    /\ UNCHANGED << sb, did, shots >>
    /\ CallFrame

\* ------------------------------------- fill_cover_letter_with_verification

\* An exception that leaves add_cover_letter_and_submit reaches the except
\* clauses of apply_to_vacancy, or the caller of the method itself.  The
\* locals of add_cover_letter_and_submit are gone once it has returned or
\* raised.
SubmitRaises ==
    IF entry = "apply_to_vacancy"
    THEN [ av EXCEPT !.exc = "Error", !.apc = "except" ]
    ELSE [ av EXCEPT !.exc = "Error", !.apc = "exit" ]

\* lines 289-301: click the first visible toggler; everything is swallowed.
FillToggle ==
    /\ av.apc = "fill_toggle"
    /\ UNCHANGED did
    /\ av' = [ av EXCEPT !.apc = "fill_loop" ]
    /\ sb' = [ sb EXCEPT !.attempt = 0, !.sel = 1 ]
    /\ UNCHANGED shots
    /\ CallFrame

\* line 319: len(val) >= min(20, len(cover_text) // 2)
ReadbackAccepted(textLen, valLen) ==
    LET half == textLen \div 2
    IN  valLen >= (IF ReadbackFloor < half THEN ReadbackFloor ELSE half)

\* What one textarea selector may give in one attempt: the textarea is not
\* visible; click or the key press raises before fill; fill raises;
\* input_value raises after fill; or the read-back has a length.
TextareaViews ==
    { [ kind |-> k, len |-> 0 ] :
        k \in { "invisible", "raise_before", "raise_fill", "raise_read" } }
    \cup { [ kind |-> "value", len |-> n ] : n \in ReadbackLens }

\* ta.fill(cover_text) was called.
Filled(view) == view.kind \in { "raise_fill", "raise_read", "value" }

\* the fill loop left only when its attempts are used up.
FillLeavesAtEndOnly(ok, lastTry) ==
    lastTry

\* lines 319-321 and 308: the loop is left by `return True` at an accepted
\* read-back, or when the last selector of the last attempt is done.
FillLeaves(ok, lastTry) ==
    ok \/ lastTry

\* lines 308-326: one selector of one attempt of the fill loop.
FillStep ==
    /\ av.apc = "fill_loop"
    /\ \E view \in TextareaViews :
          LET ok == view.kind = "value"
                    /\ ReadbackAccepted(av.final_cover_text, view.len)
              lastSel == sb.sel = NumTextareaSelectors
              lastTry == lastSel /\ sb.attempt + 1 = FillAttempts
          IN  /\ sb' = [ sb EXCEPT
                           !.fills = IF Filled(view) THEN @ + 1 ELSE @,
                           !.accepts = IF ok THEN @ + 1 ELSE @,
                           !.letter_ok = ok,
                           !.sel = IF FillLeaves(ok, lastTry) THEN @
                                   ELSE IF lastSel THEN 1 ELSE @ + 1,
                           !.attempt = IF lastSel /\ ~(ok /\ FillLeaves(ok, lastTry))
                                       THEN @ + 1 ELSE @ ]
              /\ av' = [ av EXCEPT !.apc = IF FillLeaves(ok, lastTry)
                                           THEN "letter_gate" ELSE "fill_loop" ]
              /\ did' = IF Filled(view) THEN did \cup { "fill" } ELSE did
    /\ UNCHANGED shots
    /\ CallFrame

\* ---------------------------------------------- add_cover_letter_and_submit

\* add_cover_letter_and_submit going on whatever the fill returned.
LetterGateOpen ==
    /\ av.apc = "letter_gate"
    /\ sb' = [ sb EXCEPT !.attempt = 0, !.sel = 1, !.fills = 0, !.accepts = 0 ]
    /\ av' = [ av EXCEPT !.apc = "resume", !.final_cover_text = 0 ]
    /\ UNCHANGED << did, shots >>
    /\ CallFrame

\* lines 329-333: without a verified letter, and with require_cover_letter,
\* take the screenshot and return False.  The locals of
\* fill_cover_letter_with_verification are gone once it has returned.
LetterGate ==
    /\ av.apc = "letter_gate"
    /\ IF cfg.require_cover_letter /\ ~sb.letter_ok
       THEN /\ shots' = make_shot("no_cover_letter")
            /\ sb' = [ sb EXCEPT !.ok = FALSE, !.attempt = 0, !.sel = 1,
                                 !.fills = 0, !.accepts = 0 ]
            /\ av' = [ av EXCEPT !.apc = "acls_return", !.final_cover_text = 0 ]
       ELSE /\ sb' = [ sb EXCEPT !.attempt = 0, !.sel = 1, !.fills = 0, !.accepts = 0 ]
            /\ av' = [ av EXCEPT !.apc = "resume", !.final_cover_text = 0 ]
            /\ UNCHANGED shots
    /\ UNCHANGED did
    /\ CallFrame

\* select_specific_resume: it activates one matching entry and returns True,
\* or returns False, or an element count outside its try blocks raises.
ResumeViews == { "selected", "not_found", "raise" }

\* select_any_resume_if_needed: the same three ways.
AnyResumeViews == { "selected", "none", "raise" }

\* lines 335-342: the resume.  With fail_if_resume_not_found the screenshot
\* is taken and the method goes on (line 340: no return).
SelectResume ==
    /\ av.apc = "resume"
    /\ \E view \in ResumeViews, anyView \in AnyResumeViews :
          LET fallback == view = "not_found" /\ ~cfg.fail_if_resume_not_found
              raises == view = "raise" \/ (fallback /\ anyView = "raise")
          IN  /\ av' = IF raises THEN SubmitRaises
                       ELSE [ av EXCEPT !.apc = "consents" ]
              /\ sb' = IF raises THEN SbIdle
                       ELSE [ sb EXCEPT !.selected_exact = (view = "selected"),
                                        !.resumes = @ + 1 ]
              /\ shots' = IF view = "not_found" /\ cfg.fail_if_resume_not_found
                          THEN make_shot("resume_not_found")
                          ELSE shots
              /\ did' = did \cup { "select_specific_resume" }
                            \cup (IF view = "selected" THEN { "resume_activated" } ELSE {})
                            \cup (IF fallback THEN { "select_any_resume_if_needed" } ELSE {})
                            \cup (IF fallback /\ anyView = "selected"
                                  THEN { "resume_activated" } ELSE {})
    /\ CallFrame

\* add_cover_letter_and_submit without its consent check.
check_consents_skipped ==
    did' = did

\* check_consents_if_needed: every visible unchecked box is checked;
\* nothing is raised.  sb.consents counts its runs in a call.
check_consents_if_needed ==
    did' = did \cup { "check_consents_if_needed" }

\* line 344
CheckConsents ==
    /\ av.apc = "consents"
    /\ check_consents_if_needed
    /\ av' = [ av EXCEPT !.apc = "submit_probe" ]
    /\ sb' = [ sb EXCEPT !.cycle = 0, !.probes = 1, !.cand = 1, !.btn = 0,
                         !.retry = FALSE, !.consents = @ + 1 ]
    /\ UNCHANGED shots
    /\ CallFrame

\* What one submit selector may show: not visible, get_attribute raises, or
\* visible with its disabled and aria-disabled attributes ("None": absent;
\* "": a bare boolean attribute).
SubmitViews ==
    { [ kind |-> k, disabled |-> "None", aria |-> "None" ] :
        k \in { "invisible", "raise" } }
    \cup { [ kind |-> "visible", disabled |-> d, aria |-> a ] :
             d \in { "None", "", "disabled" }, a \in { "None", "false", "true" } }

\* line 360: not disabled and (aria is None or aria == "false")
SubmitEnabled(view) ==
    /\ view.kind = "visible"
    /\ view.disabled \in { "None", "" }
    /\ view.aria \in { "None", "false" }

\* a cycle that ends without being counted by the loop.
NextCycleNotCounted ==
    [ sb EXCEPT !.cand = 1, !.btn = 0, !.retry = FALSE ]

\* After the cycle that ends: the next cycle, or the loop is over.
NextCycle ==
    [ sb EXCEPT !.cycle = @ + 1,
                !.probes = IF sb.cycle + 1 < SubmitCycles THEN @ + 1 ELSE @,
                !.cand = 1, !.btn = 0, !.retry = FALSE ]

AfterCycle == IF sb.cycle + 1 < SubmitCycles THEN "submit_probe" ELSE "submit_fail"

\* lines 353-367: find_enabled_submit, one candidate at a time.
SubmitProbe ==
    /\ av.apc = "submit_probe"
    /\ \E view \in SubmitViews :
          IF SubmitEnabled(view)
          THEN /\ sb' = [ sb EXCEPT !.btn = sb.cand ]
               /\ av' = [ av EXCEPT !.apc = "submit_click" ]
          ELSE IF sb.cand < NumSubmitCandidates
          THEN /\ sb' = [ sb EXCEPT !.cand = @ + 1 ]
               /\ UNCHANGED av
          ELSE /\ sb' = [ sb EXCEPT !.btn = 0 ]
               /\ av' = [ av EXCEPT !.apc = "submit_none" ]
    /\ UNCHANGED << did, shots >>
    /\ CallFrame

\* a cycle without a submit control that is not counted.
SubmitNoButtonFree ==
    /\ av.apc = "submit_none"
    /\ check_consents_if_needed
    /\ sb' = [ sb EXCEPT !.cand = 1, !.btn = 0 ]
    /\ av' = [ av EXCEPT !.apc = "submit_probe" ]
    /\ UNCHANGED shots
    /\ CallFrame

\* lines 400-402: no enabled submit control: check the consents again; the
\* cycle is spent.
SubmitNoButton ==
    /\ av.apc = "submit_none"
    /\ check_consents_if_needed
    /\ sb' = [ NextCycle EXCEPT !.consents = @ + 1 ]
    /\ av' = [ av EXCEPT !.apc = AfterCycle ]
    /\ UNCHANGED shots
    /\ CallFrame

\* lines 369-375 and 387-389: btn.click(force=True), the first of the cycle
\* or the retry after the first try raised.
SubmitClick ==
    /\ av.apc = "submit_click"
    /\ did' = did \cup { "submit_click" }
    /\ \E raised \in BOOLEAN :
          IF ~raised
          THEN /\ sb' = [ sb EXCEPT !.clicks = @ + 1 ]
               /\ av' = [ av EXCEPT !.apc = "verify1" ]
          ELSE IF ~sb.retry
          THEN /\ sb' = [ sb EXCEPT !.clicks = @ + 1, !.retry = TRUE ]
               /\ UNCHANGED av
          ELSE /\ sb' = [ NextCycle EXCEPT !.clicks = @ + 1 ]
               /\ av' = [ av EXCEPT !.apc = AfterCycle ]
    /\ UNCHANGED shots
    /\ CallFrame

\* lines 376-383 and 390-397: wait, then already_applied, twice.  A wait
\* that raises in the first try leads to the retry click; in the retry it
\* ends the cycle.
SubmitVerify ==
    /\ av.apc \in { "verify1", "verify2" }
    /\ \E waitRaised \in BOOLEAN, view \in AppliedViews :
          IF waitRaised
          THEN IF ~sb.retry
               THEN /\ sb' = [ sb EXCEPT !.retry = TRUE ]
                    /\ av' = [ av EXCEPT !.apc = "submit_click" ]
               ELSE /\ sb' = NextCycle
                    /\ av' = [ av EXCEPT !.apc = AfterCycle ]
          ELSE IF already_applied(view.phrases, view.visible)
          THEN /\ sb' = [ sb EXCEPT !.ok = TRUE, !.confirmed = view.phrases # {},
                                    !.gone = (view.phrases = {}
                                              /\ get_apply_button(view.visible) = 0) ]
               /\ av' = [ av EXCEPT !.apc = "acls_return" ]
          ELSE IF av.apc = "verify1"
          THEN /\ UNCHANGED sb
               /\ av' = [ av EXCEPT !.apc = "verify2" ]
          ELSE /\ sb' = NextCycle
               /\ av' = [ av EXCEPT !.apc = AfterCycle ]
    /\ UNCHANGED << did, shots >>
    /\ CallFrame

\* lines 403-405: the loop is over without a confirmation.
SubmitFail ==
    /\ av.apc = "submit_fail"
    /\ shots' = make_shot("submit_fail")
    /\ sb' = [ sb EXCEPT !.ok = FALSE ]
    /\ av' = [ av EXCEPT !.apc = "acls_return" ]
    /\ UNCHANGED did
    /\ CallFrame

\* add_cover_letter_and_submit returned to the caller that called it itself.
ClientSubmitReturned ==
    /\ av.apc = "acls_return"
    /\ entry = "add_cover_letter_and_submit"
    /\ av' = [ av EXCEPT !.ret = IF sb.ok THEN "True" ELSE "False", !.apc = "exit" ]
    /\ sb' = SbIdle
    /\ UNCHANGED << did, shots >>
    /\ CallFrame

\* --------------------------------------------------------- specifications

ConfigValues(ais) ==
    [ max_applies : { -1 } \cup (0..MaxApplies),
      max_pages : 1..MaxPages,
      empty_pages_tolerance : 1..MaxTolerance,
      require_cover_letter : BOOLEAN,
      fail_if_resume_not_found : BOOLEAN,
      ai : ais ]

\* App.__init__ and the start of run(), with the Config of config.py.
Init ==
    /\ cfg \in { c \in ConfigValues({ "absent" }) :
                   c.require_cover_letter /\ c.fail_if_resume_not_found }
    /\ dry_run \in BOOLEAN
    /\ stop = FALSE
    /\ pc = "while"
    /\ applies_done = 0
    /\ page_num = 0
    /\ empty_pages = 0
    /\ stats = StatsZero
    /\ seen \in SUBSET VacIds
    /\ links = << >>
    /\ vurl = << >>
    /\ result = NoResult
    /\ csv = << >>
    /\ markSeenCalls = << >>
    /\ stopInFlight = FALSE
    /\ cover_text = SetMax(CoverLens)
    /\ entry = "apply_to_vacancy"
    /\ av = AvIdle
    /\ sb = SbIdle
    /\ did = {}
    /\ shots = {}
    /\ hp = HpIdle

Next ==
    \/ Stop
    \/ RunWhile
    \/ RunLoadPage
    \/ RunFor
    \/ RunIter
    \/ RunApplyReturned
    \/ RunApplyRaised
    \/ RunMarkSeen
    \/ RunCount
    \/ RunReport
    \/ ApplyNewPage
    \/ ApplyGoto
    \/ ApplyTitle
    \/ ApplyAlreadyApplied
    \/ ApplyGetButton
    \/ ApplyCoverText
    \/ ApplyExcept
    \/ ApplyFinally

Spec == Init /\ [][Next]_vars

\* The steps of run() and of the call it makes: everything but the signal.
RunSteps ==
    \/ RunWhile
    \/ RunLoadPage
    \/ RunFor
    \/ RunIter
    \/ RunApplyReturned
    \/ RunApplyRaised
    \/ RunMarkSeen
    \/ RunCount
    \/ RunReport
    \/ ApplyNewPage
    \/ ApplyGoto
    \/ ApplyTitle
    \/ ApplyAlreadyApplied
    \/ ApplyGetButton
    \/ ApplyCoverText
    \/ ApplyExcept
    \/ ApplyFinally

\* App.run as a running program: run() is one thread, every call it makes
\* on the page returns or raises within its timeout, so the thread takes its
\* next step as long as it has one.  A signal may come or not.
SpecLive == Init /\ [][Next]_vars /\ WF_vars(RunSteps)

\* A caller calls apply_to_vacancy(context, url, cover_text), or
\* add_cover_letter_and_submit(page, cover_text) on an open page, on an
\* HHClient built with any configuration object: the Config of config.py, or
\* one that also declares the attributes of AIFields.
InitClient ==
    /\ entry \in { "apply_to_vacancy", "add_cover_letter_and_submit" }
    /\ cfg \in { c \in ConfigValues({ "absent", "off", "on" }) :
                   /\ c.max_applies = 0
                   /\ c.max_pages = 1
                   /\ c.empty_pages_tolerance = 1
                   /\ entry = "add_cover_letter_and_submit" => c.ai = "absent" }
    /\ dry_run = FALSE
    /\ stop = FALSE
    /\ pc = "client"
    /\ applies_done = 0
    /\ page_num = 0
    /\ empty_pages = 0
    /\ stats = StatsZero
    /\ seen = {}
    /\ links = << >>
    /\ vurl = << >>
    /\ result = NoResult
    /\ csv = << >>
    /\ markSeenCalls = << >>
    /\ stopInFlight = FALSE
    /\ cover_text \in CoverLens
    /\ av = IF entry = "apply_to_vacancy"
            THEN [ AvIdle EXCEPT !.apc = "new_page" ]
            ELSE [ AvIdle EXCEPT !.apc = "fill_toggle", !.page = "open",
                                 !.final_cover_text = cover_text ]
    /\ sb = SbIdle
    /\ did = {}
    /\ shots = {}
    /\ hp = HpIdle

NextClient ==
    \/ ApplyNewPage
    \/ ApplyGoto
    \/ ApplyTitle
    \/ ApplyAlreadyApplied
    \/ ApplyGetButton
    \/ ApplyCoverText
    \/ ApplyClick
    \/ ApplySubmitReturned
    \/ ApplyExcept
    \/ ApplyFinally
    \/ FillToggle
    \/ FillStep
    \/ LetterGate
    \/ SelectResume
    \/ CheckConsents
    \/ SubmitProbe
    \/ SubmitNoButton
    \/ SubmitClick
    \/ SubmitVerify
    \/ SubmitFail
    \/ ClientSubmitReturned

SpecClient == InitClient /\ [][NextClient]_vars

\* ------------------------------------------------ helpers called on their own

MaxPathLen == 4
MaxQueryLen == 2

\* What a URL is made of before its first "?", and after it.
PathTokens == { "/", "vacancy", "1" }
QueryTokens == { "/", "1" }

SeqsUpTo(S, n) == UNION { [1..k -> S] : k \in 0..n }

\* No query string, or "?" and what follows it.
Queries == { << >> } \cup { << "?" >> \o q : q \in SeqsUpTo(QueryTokens, MaxQueryLen) }

\* extract_vacancy_id(url) for two URLs with the same path.
ExtractCalls ==
    \E path \in SeqsUpTo(PathTokens, MaxPathLen), q1 \in Queries, q2 \in Queries :
        hp = [ op |-> "extract_vacancy_id", done |-> FALSE,
               arg |-> << path \o q1, path \o q2 >>, path |-> path, out |-> << >> ]

CallExtractVacancyId ==
    /\ hp.op = "extract_vacancy_id"
    /\ ~hp.done
    /\ hp' = [ hp EXCEPT !.done = TRUE,
                         !.out = << extract_vacancy_id(hp.arg[1]),
                                    extract_vacancy_id(hp.arg[2]) >> ]
    /\ UNCHANGED << cfg, runVars, callVars >>

\* The check of line 319 for a letter and a stripped read-back.
ReadbackCalls ==
    \E l \in CoverLens, r \in ReadbackLens :
        hp = [ op |-> "readback", done |-> FALSE, arg |-> << l, r >>, out |-> FALSE ]

CallReadbackAccepted ==
    /\ hp.op = "readback"
    /\ ~hp.done
    /\ hp' = [ hp EXCEPT !.done = TRUE,
                         !.out = ReadbackAccepted(hp.arg[1], hp.arg[2]) ]
    /\ UNCHANGED << cfg, runVars, callVars >>

\* lines 353-364: find_enabled_submit over what the submit selectors show, in
\* their order; 0 stands for None.
find_enabled_submit(views) ==
    LET E == { i \in 1..Len(views) : SubmitEnabled(views[i]) }
    IN  IF E = {} THEN 0 ELSE SetMin(E)

SubmitCalls ==
    \E views \in [1..NumSubmitCandidates -> SubmitViews] :
        hp = [ op |-> "find_enabled_submit", done |-> FALSE, arg |-> views, out |-> 0 ]

CallFindEnabledSubmit ==
    /\ hp.op = "find_enabled_submit"
    /\ ~hp.done
    /\ hp' = [ hp EXCEPT !.done = TRUE, !.out = find_enabled_submit(hp.arg) ]
    /\ UNCHANGED << cfg, runVars, callVars >>

\* The is_visible waits one call of get_apply_button makes: up to the first
\* visible candidate, or all of them.
apply_probes(visible) ==
    IF visible = {} THEN NumApplyCandidates ELSE SetMin(visible)

ApplyButtonCalls ==
    \E visible \in SUBSET (1..NumApplyCandidates) :
        hp = [ op |-> "get_apply_button", done |-> FALSE, arg |-> visible,
               out |-> 0, probes |-> 0 ]

CallGetApplyButton ==
    /\ hp.op = "get_apply_button"
    /\ ~hp.done
    /\ hp' = [ hp EXCEPT !.done = TRUE,
                         !.out = get_apply_button(hp.arg),
                         !.probes = apply_probes(hp.arg) ]
    /\ UNCHANGED << cfg, runVars, callVars >>

\* select_specific_resume: its three textual selectors, its four container
\* selectors, and the items of a container it looks at (min(count, 10)).
NumTextual == 3
NumContainers == 4
ResumeItemCap == 10

\* What a textual selector may give: no visible match; loc.count() raises
\* (line 212, outside the try); the match is activated (radio.check() or
\* loc.first.click()); the try block raises before anything is activated; or
\* check()/click() acts on the entry and then raises.
TextualViews ==
    { "absent", "count_raises", "activated", "raises_before", "raises_after" }

\* What items.count() of a container may give, when it does not raise
\* (line 225, outside the try).
ItemCounts == 0..(ResumeItemCap + 1)

\* What an item of a container may give: not visible; its text lacks the
\* mask; reading it raises; the item is activated; or as above.
ItemViews ==
    { "invisible", "no_match", "activated", "raises_before", "raises_after" }

ResumeCalls ==
    hp = [ op |-> "select_specific_resume", done |-> FALSE, phase |-> "textual",
           sel |-> 1, idx |-> 0, n |-> 0, activations |-> 0, out |-> "None" ]

\* The position after the container item at idx.
AfterItem ==
    IF hp.idx + 1 < hp.n
    THEN [ hp EXCEPT !.idx = @ + 1 ]
    ELSE IF hp.sel < NumContainers
    THEN [ hp EXCEPT !.phase = "count", !.sel = @ + 1, !.idx = 0, !.n = 0 ]
    ELSE [ hp EXCEPT !.done = TRUE, !.out = "False" ]

\* lines 210-222: one textual selector.
ResumeTextual ==
    /\ hp.op = "select_specific_resume"
    /\ ~hp.done
    /\ hp.phase = "textual"
    /\ \E view \in TextualViews :
          LET next == IF hp.sel < NumTextual
                      THEN [ hp EXCEPT !.sel = @ + 1 ]
                      ELSE [ hp EXCEPT !.phase = "count", !.sel = 1 ]
          IN  hp' = CASE view = "absent" -> next
                      [] view = "count_raises" ->
                            [ hp EXCEPT !.done = TRUE, !.out = "raise" ]
                      [] view = "activated" ->
                            [ hp EXCEPT !.done = TRUE, !.out = "True",
                                        !.activations = @ + 1 ]
                      [] view = "raises_before" -> next
                      [] view = "raises_after" ->
                            [ next EXCEPT !.activations = @ + 1 ]
    /\ UNCHANGED << cfg, runVars, callVars >>

\* lines 223-225: the items of the next container.
ResumeCount ==
    /\ hp.op = "select_specific_resume"
    /\ ~hp.done
    /\ hp.phase = "count"
    /\ \E count_raises \in BOOLEAN, c \in ItemCounts :
          hp' = IF count_raises
                THEN [ hp EXCEPT !.done = TRUE, !.out = "raise" ]
                ELSE IF c = 0
                THEN IF hp.sel < NumContainers
                     THEN [ hp EXCEPT !.sel = @ + 1 ]
                     ELSE [ hp EXCEPT !.done = TRUE, !.out = "False" ]
                ELSE [ hp EXCEPT !.phase = "items", !.idx = 0,
                                 !.n = IF c < ResumeItemCap THEN c ELSE ResumeItemCap ]
    /\ UNCHANGED << cfg, runVars, callVars >>

\* lines 226-241: one item of a container.
ResumeItem ==
    /\ hp.op = "select_specific_resume"
    /\ ~hp.done
    /\ hp.phase = "items"
    /\ \E view \in ItemViews :
          hp' = CASE view \in { "invisible", "no_match", "raises_before" } -> AfterItem
                  [] view = "activated" ->
                        [ hp EXCEPT !.done = TRUE, !.out = "True",
                                    !.activations = @ + 1 ]
                  [] view = "raises_after" ->
                        [ AfterItem EXCEPT !.activations = hp.activations + 1 ]
    /\ UNCHANGED << cfg, runVars, callVars >>

\* check_consents_if_needed: its three selectors, and the boxes of a selector
\* it looks at (min(count, 6)).
NumConsentStrategies == 3
ConsentCap == 6

\* What boxes.count() may give when it does not raise.
BoxCounts == 0..(ConsentCap + 1)

\* What a box may give: not visible; visible and checked already; visible,
\* unchecked and box.check() works; or is_checked() or check() raises.
BoxViews == { "invisible", "checked", "check_ok", "raises" }

ConsentCalls ==
    hp = [ op |-> "check_consents_if_needed", done |-> FALSE, phase |-> "count",
           sel |-> 1, idx |-> 0, n |-> 0, checks |-> 0, failed |-> FALSE,
           last |-> "none" ]

\* The position after the box at idx.
AfterBox ==
    IF hp.idx + 1 < hp.n
    THEN [ hp EXCEPT !.idx = @ + 1 ]
    ELSE IF hp.sel < NumConsentStrategies
    THEN [ hp EXCEPT !.phase = "count", !.sel = @ + 1, !.idx = 0, !.n = 0 ]
    ELSE [ hp EXCEPT !.done = TRUE ]

\* a failure at one box that ends the pass.
ConsentRaisedAborts ==
    [ hp EXCEPT !.done = TRUE ]

\* lines 283-284: `except Exception: continue`, on to the next box.
ConsentRaised ==
    AfterBox

\* lines 274-276: the boxes of the next selector; an exception of count() is
\* caught by the outer try (lines 285-286) and ends the pass.
ConsentCount ==
    /\ hp.op = "check_consents_if_needed"
    /\ ~hp.done
    /\ hp.phase = "count"
    /\ \E count_raises \in BOOLEAN, c \in BoxCounts :
          hp' = IF count_raises
                THEN [ hp EXCEPT !.done = TRUE ]
                ELSE IF c = 0
                THEN IF hp.sel < NumConsentStrategies
                     THEN [ hp EXCEPT !.sel = @ + 1 ]
                     ELSE [ hp EXCEPT !.done = TRUE ]
                ELSE [ hp EXCEPT !.phase = "items", !.idx = 0,
                                 !.n = IF c < ConsentCap THEN c ELSE ConsentCap ]
    /\ UNCHANGED << cfg, runVars, callVars >>

\* lines 277-284: one box.
ConsentBox ==
    /\ hp.op = "check_consents_if_needed"
    /\ ~hp.done
    /\ hp.phase = "items"
    /\ \E view \in BoxViews :
          hp' = [ (IF view = "raises" THEN ConsentRaised ELSE AfterBox) EXCEPT
                    !.last = view,
                    !.checks = IF view = "check_ok" THEN @ + 1 ELSE @,
                    !.failed = @ \/ view = "raises" ]
    /\ UNCHANGED << cfg, runVars, callVars >>

\* SeenRepo on its own: the rows of seen_vacancies, id -> first_seen_at, and
\* mark_seen called on the same id more than once.
MaxMarkCalls == 2

\* first_seen_at of the rows that are in the table before the calls.
OldStamps == { 0, 1 }

SeenTables == UNION { [D -> OldStamps] : D \in SUBSET VacIds }

\* INSERT OR REPLACE: the row of an id that is present is written anew.
insert_or_replace(rows, id, now) ==
    [ x \in DOMAIN rows \cup { id } |-> IF x = id THEN now ELSE rows[x] ]

\* lines 45-48: INSERT OR IGNORE INTO seen_vacancies (id, first_seen_at);
\* id is the primary key, so a row that is present is left as it is.
insert_or_ignore(rows, id, now) ==
    IF id \in DOMAIN rows
    THEN rows
    ELSE [ x \in DOMAIN rows \cup { id } |-> IF x = id THEN now ELSE rows[x] ]

MarkSeenCalls ==
    \E rows \in SeenTables, id \in VacIds :
        hp = [ op |-> "mark_seen", done |-> FALSE, arg |-> id, rows |-> rows,
               prev |-> rows, now |-> SetMax(OldStamps) + 1, calls |-> 0,
               failed |-> FALSE ]

\* lines 42-51: one call of mark_seen(arg), at a later time than every call
\* before; a call that fails commits nothing and the exception is swallowed.
CallMarkSeen ==
    /\ hp.op = "mark_seen"
    /\ ~hp.done
    /\ \E failed \in BOOLEAN :
          hp' = [ hp EXCEPT
                    !.prev = hp.rows,
                    !.rows = IF failed THEN @ ELSE insert_or_ignore(@, hp.arg, hp.now),
                    !.now = @ + 1,
                    !.calls = @ + 1,
                    !.failed = failed,
                    !.done = (hp.calls + 1 = MaxMarkCalls) ]
    /\ UNCHANGED << cfg, runVars, callVars >>

\* check_consents_if_needed run twice on a page that is not changed by
\* anything else.  The page has MaxBoxes checkboxes in document order; a box
\* is matched by some of the three selectors, and is hidden, checked, or
\* visible and unchecked ("stuck" when is_checked() or check() raises on it).
\* `lead` hidden boxes precede them under every selector, and count() of the
\* selector count_raises raises (0: none does).
MaxBoxes == 2

ConsentBoxIds == 1..MaxBoxes

ConsentKinds == { "hidden_unchecked", "hidden_checked", "checked", "unchecked", "stuck" }

ConsentLeads == { 0, ConsentCap - 1, ConsentCap }

BoxIsChecked(kind) ==
    kind \in { "hidden_checked", "checked" }

\* a click on the box in place of check(): a checked box is unchecked.
BoxClicked(kind) ==
    IF kind = "unchecked" THEN "checked"
    ELSE IF kind = "checked" THEN "unchecked"
    ELSE kind

\* lines 280-284: a box that is visible and not checked is checked by
\* box.check(); a hidden box and a checked box are left alone, and so is a
\* box on which is_checked() or check() raises.
BoxAfter(kind) ==
    IF kind = "unchecked" THEN "checked" ELSE kind

\* lines 275-278: boxes.nth(i) for i < min(boxes.count(), 6).
ConsentVisited(page, sel) ==
    { b \in ConsentBoxIds :
        /\ sel \in page.match[b]
        /\ page.lead + Cardinality({ c \in 1..b : sel \in page.match[c] }) <= ConsentCap }

\* lines 273-286: the selectors in their order, from sel on; count() that
\* raises ends the pass.
RECURSIVE ConsentPass(_, _)
ConsentPass(page, sel) ==
    IF sel > NumConsentStrategies \/ page.count_raises = sel
    THEN page
    ELSE ConsentPass(
           [ page EXCEPT !.kind = [ b \in ConsentBoxIds |->
                                      IF b \in ConsentVisited(page, sel)
                                      THEN BoxAfter(page.kind[b])
                                      ELSE page.kind[b] ] ],
           sel + 1)

ConsentTwiceCalls ==
    \E kind \in [ConsentBoxIds -> ConsentKinds],
       match \in [ConsentBoxIds -> SUBSET (1..NumConsentStrategies)],
       lead \in ConsentLeads,
       count_raises \in 0..NumConsentStrategies :
        hp = [ op |-> "check_consents_twice", done |-> FALSE, passes |-> 0,
               before |-> [ kind |-> kind, match |-> match, lead |-> lead,
                            count_raises |-> count_raises ],
               page |-> [ kind |-> kind, match |-> match, lead |-> lead,
                          count_raises |-> count_raises ],
               first |-> [ kind |-> kind, match |-> match, lead |-> lead,
                           count_raises |-> count_raises ] ]

\* one call of check_consents_if_needed(page); `first` keeps the page as the
\* first call left it.
CallConsentsAgain ==
    /\ hp.op = "check_consents_twice"
    /\ ~hp.done
    /\ hp' = [ hp EXCEPT
                 !.page = ConsentPass(hp.page, 1),
                 !.first = IF hp.passes = 0 THEN ConsentPass(hp.page, 1) ELSE @,
                 !.passes = @ + 1,
                 !.done = (hp.passes + 1 = 2) ]
    /\ UNCHANGED << cfg, runVars, callVars >>

HelperCalls ==
    \/ ExtractCalls
    \/ ReadbackCalls
    \/ SubmitCalls
    \/ ApplyButtonCalls
    \/ ResumeCalls
    \/ ConsentCalls
    \/ MarkSeenCalls
    \/ ConsentTwiceCalls

InitHelpers ==
    /\ HelperCalls
    /\ cfg \in { c \in ConfigValues({ "absent" }) :
                   /\ c.max_applies = 0
                   /\ c.max_pages = 1
                   /\ c.empty_pages_tolerance = 1
                   /\ c.require_cover_letter
                   /\ c.fail_if_resume_not_found }
    /\ dry_run = FALSE
    /\ stop = FALSE
    /\ pc = "helper"
    /\ applies_done = 0
    /\ page_num = 0
    /\ empty_pages = 0
    /\ stats = StatsZero
    /\ seen = {}
    /\ links = << >>
    /\ vurl = << >>
    /\ result = NoResult
    /\ csv = << >>
    /\ markSeenCalls = << >>
    /\ stopInFlight = FALSE
    /\ cover_text = SetMax(CoverLens)
    /\ entry = "helper"
    /\ av = AvIdle
    /\ sb = SbIdle
    /\ did = {}
    /\ shots = {}

NextHelpers ==
    \/ CallExtractVacancyId
    \/ CallReadbackAccepted
    \/ CallFindEnabledSubmit
    \/ CallGetApplyButton
    \/ ResumeTextual
    \/ ResumeCount
    \/ ResumeItem
    \/ ConsentCount
    \/ ConsentBox
    \/ CallMarkSeen
    \/ CallConsentsAgain

SpecHelpers == InitHelpers /\ [][NextHelpers]_vars

\* ------------------------------------------------- a page that cooperates

\* The page of a listing that is open for an application and on which every
\* step works: nothing the page is asked to do raises, the listing is not
\* yet applied to, the letter is read back, the exact resume is found, and
\* the first submit click brings up a confirmation phrase.
Cooperative ==
    /\ av.exc \notin { "PWTimeoutError", "Error" }
    /\ av.first.checked => (~av.first.phrase /\ av.first.button)
    /\ av.apc = "letter_gate" => sb.letter_ok
    /\ av.apc \in { "consents", "submit_probe", "submit_none", "submit_click",
                    "verify1", "verify2", "acls_return" } => sb.selected_exact
    /\ av.apc # "submit_fail"
    /\ ~sb.retry
    /\ sb.clicks <= 1
    /\ sb.clicks = 1 => av.apc \in { "verify1", "verify2", "acls_return" }
    /\ sb.ok => sb.confirmed

InitHappy ==
    /\ InitClient
    /\ entry = "apply_to_vacancy"
    /\ cfg.require_cover_letter
    /\ cfg.fail_if_resume_not_found

NextHappy ==
    \/ ApplyNewPage /\ Cooperative'
    \/ ApplyGoto /\ Cooperative'
    \/ ApplyTitle /\ Cooperative'
    \/ ApplyAlreadyApplied /\ Cooperative'
    \/ ApplyGetButton /\ Cooperative'
    \/ ApplyCoverText /\ Cooperative'
    \/ ApplyClick /\ Cooperative'
    \/ FillToggle /\ Cooperative'
    \/ FillStep /\ Cooperative'
    \/ LetterGate /\ Cooperative'
    \/ SelectResume /\ Cooperative'
    \/ CheckConsents /\ Cooperative'
    \/ SubmitProbe /\ Cooperative'
    \/ SubmitNoButton /\ Cooperative'
    \/ SubmitClick /\ Cooperative'
    \/ SubmitVerify /\ Cooperative'
    \/ ApplySubmitReturned /\ Cooperative'
    \/ ApplyExcept /\ Cooperative'
    \/ ApplyFinally /\ Cooperative'

SpecHappy == InitHappy /\ [][NextHappy]_vars

\* ----------------------------------------------------------------- claims

\* add_cover_letter_and_submit is past select_specific_resume.
AfterResume ==
    av.apc \in { "consents", "submit_probe", "submit_none", "submit_click",
                 "verify1", "verify2", "submit_fail", "acls_return" }

\* The steps that follow the cover letter in add_cover_letter_and_submit.
AfterLetterSteps ==
    { "select_specific_resume", "resume_activated", "select_any_resume_if_needed",
      "check_consents_if_needed", "submit_click" }

\* select_specific_resume was called in this call and returned False.
ResumeReturnedFalse ==
    /\ AfterResume
    /\ "select_specific_resume" \in did
    /\ ~sb.selected_exact

\* C1: when select_specific_resume returns False and fail_if_resume_not_found
\* is true, add_cover_letter_and_submit takes the resume_not_found
\* screenshot, clicks no submit control and returns False.
C1_StrictResumeStops ==
    (ResumeReturnedFalse /\ cfg.fail_if_resume_not_found)
        => /\ "resume_not_found" \in shots
           /\ "submit_click" \notin did
           /\ sb.clicks = 0
           /\ av.apc = "acls_return" => ~sb.ok

\* C2: when fill_cover_letter_with_verification returns False and
\* require_cover_letter is true, add_cover_letter_and_submit takes the
\* no_cover_letter screenshot and returns False, and neither resume
\* selection, nor consent checking, nor a submit click is performed.
C2_NoLetterNoSubmit ==
    (cfg.require_cover_letter /\ ~sb.letter_ok)
        => /\ av.apc \notin { "resume", "consents", "submit_probe", "submit_none",
                              "submit_click", "verify1", "verify2", "submit_fail" }
           /\ av.apc = "acls_return"
                => /\ ~sb.ok
                   /\ "no_cover_letter" \in shots
                   /\ did \cap AfterLetterSteps = {}
                   /\ sb.clicks = 0

C2_Witness ==
    /\ av.apc = "acls_return"
    /\ cfg.require_cover_letter
    /\ ~sb.letter_ok
    /\ "fill" \in did
    /\ "no_cover_letter" \in shots

\* C3: if the first already_applied check of apply_to_vacancy sees a
\* confirmation phrase, or no apply button, the call returns
\* SKIPPED_ALREADY_APPLIED and touches nothing on the page: no apply click,
\* no fill, no resume selection, no consent check, no submit click.
C3_AlreadyAppliedSkips ==
    (av.first.checked /\ (av.first.phrase \/ ~av.first.button))
        => /\ av.apc \in { "finally", "exit" }
           /\ av.ret = SKIPPED_ALREADY_APPLIED
           /\ av.exc = "none"
           /\ did = {}
           /\ sb = SbIdle

C3_Witness ==
    /\ av.apc = "exit"
    /\ av.first.checked
    /\ ~av.first.phrase
    /\ ~av.first.button
    /\ av.ret = SKIPPED_ALREADY_APPLIED

\* The submit loop was entered in this call.
InSubmitLoop ==
    av.apc \in { "submit_probe", "submit_none", "submit_click", "verify1",
                 "verify2", "submit_fail" }

\* C4: the submit loop runs at most 3 cycles (find_enabled_submit runs at
\* most 3 times); a cycle without an enabled submit control uses up one of
\* them; when the loop ends without a positive already-applied check the
\* submit_fail screenshot is taken and the call returns False.
C4_State ==
    /\ sb.cycle <= 3
    /\ sb.probes <= 3
    /\ sb.clicks <= 2 * sb.probes
    /\ InSubmitLoop /\ av.apc # "submit_fail" => sb.cycle < 3
    /\ av.apc = "submit_fail" => sb.cycle = 3
    /\ (av.apc = "acls_return" /\ "check_consents_if_needed" \in did)
          => IF sb.ok
             THEN "submit_fail" \notin shots
             ELSE "submit_fail" \in shots /\ sb.cycle = 3

C4_Step ==
    av.apc = "submit_none" => sb'.cycle = sb.cycle + 1

C4_SubmitLoopBounded ==
    [] C4_State /\ [][C4_Step]_vars

\* three cycles, none of which found an enabled submit control
C4_Witness ==
    /\ av.apc = "acls_return"
    /\ "submit_fail" \in shots
    /\ sb.cycle = 3
    /\ sb.clicks = 0
    /\ ~sb.ok

\* C5: fill_cover_letter_with_verification makes at most 3 attempts of 3
\* selectors each (at most 9 fills); it returns True at the first accepted
\* read-back, with no fill after it, and False exactly when no read-back was
\* accepted.
C5_FillBounded ==
    /\ sb.fills <= 9
    /\ sb.accepts <= 1
    /\ av.apc = "fill_loop" => sb.attempt < 3 /\ sb.accepts = 0
    /\ av.apc = "letter_gate" => /\ sb.letter_ok <=> sb.accepts = 1
                                 /\ ~sb.letter_ok => sb.attempt = 3

\* all nine fills were made and none was accepted
C5_Witness ==
    /\ av.apc = "letter_gate"
    /\ ~sb.letter_ok
    /\ sb.fills = 9
    /\ sb.attempt = 3

\* C6: every call of apply_to_vacancy gives its caller one ApplyResult: no
\* exception leaves it.
C6_AlwaysReturnsResult ==
    (entry = "apply_to_vacancy" /\ av.apc = "exit")
        => /\ av.exc = "none"
           /\ av.ret \in { SUCCESS, SKIPPED_ALREADY_APPLIED, ERROR }

\* App.run is inside the loop over the listings of a search page.
InListings == pc \in { "for", "iter", "apply", "mark", "count" }

\* A listing still to come on this page is not in the seen-store.
UnseenLeft ==
    \E i \in 1..Len(links) : ~is_seen(extract_vacancy_id(links[i]))

\* C7: with the stop flag unset and the cap not reached, App.run does not
\* leave the listings of a page while an unseen one is left, whatever
\* happened to the listing before it.
C7_FailureKeepsBatch ==
    [][ (InListings /\ ~InListings')
            => (stop \/ applies_done >= cfg.max_applies \/ ~UnseenLeft) ]_vars

\* C8: when apply_to_vacancy returns or raises after it created the page,
\* page.close() has been attempted, and the finally clause leaves the
\* pending result as it is, whether close failed or not.
C8_State ==
    (entry = "apply_to_vacancy" /\ av.apc = "exit" /\ av.page # "none")
        => av.closeAttempts = 1

C8_Step ==
    av.apc = "finally" => av'.ret = av.ret /\ av'.exc = av.exc

C8_PageClosedOnExit ==
    [] C8_State /\ [][C8_Step]_vars

\* the call ends in an unexpected exception, close was attempted and failed
C8_Witness ==
    /\ entry = "apply_to_vacancy"
    /\ av.apc = "exit"
    /\ av.exc = "NameError"
    /\ av.closeAttempts = 1
    /\ av.page = "open"

\* C9: a stop signal that arrives while apply_to_vacancy is in flight lets
\* the listing finish: when run() is out of its loops the listing has been
\* passed to mark_seen and its result has been counted.
C9_StopWaitsForListing ==
    (stopInFlight /\ pc \in { "report", "done", "crashed" })
        => /\ Len(markSeenCalls) = stats.opened
           /\ stats.opened = stats.applies_done + stats.skipped_already + stats.errors

\* C10: applies_done never exceeds max_applies, and apply_to_vacancy is not
\* in flight with applies_done at max_applies.
C10_CapOriginal ==
    /\ applies_done <= cfg.max_applies
    /\ pc = "apply" => applies_done < cfg.max_applies

\* C10, amended: applies_done never exceeds max_applies unless max_applies
\* is negative, and then it stays 0; no listing is opened (by
\* apply_to_vacancy or by the dry-run branch) with applies_done at or above
\* max_applies.
C10_CapRespected ==
    /\ applies_done <= (IF cfg.max_applies < 0 THEN 0 ELSE cfg.max_applies)
    /\ pc \in { "apply", "mark" } => applies_done < cfg.max_applies

\* the cap is reached while listings of the page are left
C10_Witness ==
    /\ pc = "for"
    /\ cfg.max_applies > 0
    /\ applies_done = cfg.max_applies
    /\ links # << >>

\* C11: App.run never opens a listing whose extracted id is in the
\* seen-store: apply_to_vacancy is not called for it, and the listing only
\* increments skipped_seen.
C11_State ==
    pc = "apply" => extract_vacancy_id(vurl) \notin seen

C11_Step ==
    (pc = "iter" /\ pc' # "iter" /\ extract_vacancy_id(vurl) \in seen)
        => /\ pc' = "for"
           /\ stats' = [ stats EXCEPT !.skipped_seen = @ + 1 ]
           /\ UNCHANGED << seen, applies_done, markSeenCalls, csv, result, av >>

C11_SeenNeverOpened ==
    [] C11_State /\ [][C11_Step]_vars

\* both listings of a page were in the seen-store
C11_Witness ==
    /\ pc = "for"
    /\ stats.skipped_seen = 2
    /\ stats.opened = 0
    /\ seen # {}

\* s without the separators it ends with.
RECURSIVE StripTrailing(_, _)
StripTrailing(s, sep) ==
    IF Len(s) > 0 /\ s[Len(s)] = sep
    THEN StripTrailing(SubSeq(s, 1, Len(s) - 1), sep)
    ELSE s

\* The last non-empty segment of the path of a URL.
LastNonEmptySegment(url) ==
    SplitLast(StripTrailing(SplitFirst(url, "?"), "/"), "/")

ExtractReturned == hp.op = "extract_vacancy_id" /\ hp.done

\* C12: two URLs that differ only in their query string (whatever the query
\* string holds, "/" included) get the same id from extract_vacancy_id.
C12_QueryIgnored ==
    ExtractReturned => hp.out[1] = hp.out[2]

\* C13: for a URL without a "/vacancy/<digits>" segment extract_vacancy_id
\* returns the last non-empty path segment, the query string removed, also
\* when the URL ends in "/"; for a URL with such a segment it returns the
\* digits of the first one.
C13_LastSegmentOrDigits ==
    ExtractReturned
        => IF VacIdMatches(hp.arg[1]) = {}
           THEN hp.out[1] = LastNonEmptySegment(hp.arg[1])
           ELSE hp.out[1] = DigitRun(hp.arg[1], SetMin(VacIdMatches(hp.arg[1])) + 3)

\* the smaller of two numbers
Least(a, b) == IF a <= b THEN a ELSE b

\* C14: a read-back of length R for a letter of length L is accepted exactly
\* when R >= min(20, L/2); in particular an empty read-back is rejected for
\* every non-empty letter.
C14_ReadbackThreshold ==
    (hp.op = "readback" /\ hp.done)
        => /\ hp.out <=> 2 * hp.arg[2] >= Least(2 * ReadbackFloor, hp.arg[1])
           /\ (hp.arg[1] > 0 /\ hp.arg[2] = 0) => ~hp.out

\* C18: find_enabled_submit never returns a control that has a disabled
\* attribute (whatever its value, the empty string included) or an
\* aria-disabled attribute other than "false"; it returns the first
\* candidate that is visible and passes both checks, else None.
C18_Qualifies(view) ==
    /\ view.kind = "visible"
    /\ view.disabled = "None"
    /\ view.aria \in { "None", "false" }

C18_NeverDisabled ==
    (hp.op = "find_enabled_submit" /\ hp.done)
        => LET Q == { i \in 1..Len(hp.arg) : C18_Qualifies(hp.arg[i]) }
           IN  hp.out = IF Q = {} THEN 0 ELSE SetMin(Q)

\* C19: get_apply_button returns the first candidate, in the listed order,
\* that is visible, without probing the candidates after it, and None (after
\* probing all of them) when no candidate is visible.
C19_FirstVisibleApplyButton ==
    (hp.op = "get_apply_button" /\ hp.done)
        => IF hp.arg = {}
           THEN hp.out = 0 /\ hp.probes = 6
           ELSE /\ hp.out \in hp.arg
                /\ \A c \in hp.arg : hp.out <= c
                /\ hp.probes = hp.out

\* the third and the fifth candidate are visible: the third is returned
C19_Witness ==
    /\ hp.op = "get_apply_button"
    /\ hp.done
    /\ hp.arg = { 3, 5 }
    /\ hp.out = 3

\* page.goto timed out: the page exists, the timeout is pending, and the
\* first already_applied check has not been made.
GotoTimedOut ==
    /\ av.exc = "PWTimeoutError"
    /\ av.page # "none"
    /\ ~av.first.checked

\* C17: when the navigation to the listing times out, apply_to_vacancy takes
\* the vacancy_timeout screenshot and returns ERROR, with no already-applied
\* check, apply click, fill, resume selection or submit click.
C17_State ==
    /\ GotoTimedOut => av.apc = "except" /\ did = {} /\ sb = SbIdle
    /\ ("vacancy_timeout" \in shots /\ ~av.first.checked)
          => /\ av.apc \in { "finally", "exit" }
             /\ av.ret = ERROR
             /\ av.exc = "none"
             /\ did = {}
             /\ sb = SbIdle

C17_Step ==
    GotoTimedOut
        => /\ "vacancy_timeout" \in shots'
           /\ av'.apc = "finally"
           /\ av'.ret = ERROR
           /\ av'.exc = "none"
           /\ ~av'.first.checked

C17_NavigationTimeout ==
    [] C17_State /\ [][C17_Step]_vars

C17_Witness ==
    /\ entry = "apply_to_vacancy"
    /\ av.apc = "exit"
    /\ ~av.first.checked
    /\ "vacancy_timeout" \in shots
    /\ av.ret = ERROR

\* C20: every submit click after the first follows a fresh run of
\* find_enabled_submit: there are never more clicks than runs of
\* find_enabled_submit in a call.
C20_ReprobeBeforeClick ==
    sb.clicks <= sb.probes

\* C16: with require_cover_letter and fail_if_resume_not_found set, on a page
\* that cooperates (not yet applied, letter verified, exact resume matched,
\* first submit click confirmed), apply_to_vacancy returns SUCCESS, the
\* consents having been checked before the click.
C16_HappyPathSucceeds ==
    av.apc = "exit"
        => /\ av.exc = "none"
           /\ av.ret = SUCCESS
           /\ { "check_consents_if_needed", "submit_click" } \subseteq did

\* the same, for a configuration object that has the AI attributes
C16_WithAIAttributes ==
    (av.apc = "exit" /\ cfg.ai # "absent")
        => /\ av.exc = "none"
           /\ av.ret = SUCCESS
           /\ { "check_consents_if_needed", "submit_click" } \subseteq did

\* C15: a call of select_specific_resume activates (checks or clicks) at
\* most one resume entry: exactly one when it returns True, the first one it
\* came to that matches; none when it returns False.
C15_OneResumeActivated ==
    hp.op = "select_specific_resume"
        => /\ hp.activations <= 1
           /\ hp.out = "True" => hp.activations = 1
           /\ hp.out = "False" => hp.activations = 0

\* C21: every cycle of the submit loop, the retry cycles included, runs
\* resume selection and consent checking again before it probes for the
\* submit control and clicks it: in cycle k (counted from 0) resume selection
\* and the consent check have each run more than k times.
C21_CycleRerunsSteps ==
    av.apc \in { "submit_probe", "submit_click" }
        => /\ sb.resumes > sb.cycle
           /\ sb.consents > sb.cycle

\* The positions of a call before fill_cover_letter_with_verification has
\* returned.
BeforeFillReturned ==
    av.apc \in { "idle", "new_page", "goto", "title", "already_applied",
                 "get_apply_button", "ai_flag", "click_apply", "fill_toggle",
                 "fill_loop" }

\* C22: within a call of add_cover_letter_and_submit the steps come in the
\* order fill, resume selection, consent check, submit: no resume selection
\* or activation before the fill has returned, no consent check before
\* resume selection, and no submit click before check_consents_if_needed
\* has run at least once.
C22_StepsInOrder ==
    /\ BeforeFillReturned => did \cap AfterLetterSteps = {}
    /\ "resume_activated" \in did => "select_specific_resume" \in did
    /\ "check_consents_if_needed" \in did => "select_specific_resume" \in did
    /\ "submit_click" \in did => "check_consents_if_needed" \in did
    /\ sb.clicks > 0 => sb.consents >= 1 /\ sb.resumes >= 1

\* a call that filled the letter, activated the resume, checked the consents
\* and clicked submit, in this order, and was confirmed
C22_Witness ==
    /\ av.apc = "acls_return"
    /\ sb.ok
    /\ { "fill", "resume_activated", "check_consents_if_needed", "submit_click" }
            \subseteq did

\* C23: with AI cover letters enabled, whatever the generation step does
\* (no description, a prompt file that is missing or cannot be read or
\* formatted, an HTTP error, a response of another shape, an empty result),
\* apply_to_vacancy goes on to the apply click with a non-empty letter: the
\* generated one, or the cover_text of the caller.
C23_GeneratorFallsBack ==
    [][ (av.apc = "ai_flag" /\ cfg.ai = "on")
            => /\ av'.apc = "click_apply"
               /\ av'.exc = "none"
               /\ av'.final_cover_text \in { cover_text } \cup (GeneratedLens \ { 0 }) ]_vars

\* C24: no exception raised by a query of the page or an interaction with
\* it inside the fill, the two resume selections, the consent check or the
\* submit loop leaves the method it was raised in: a call of
\* add_cover_letter_and_submit, which consists of these, ends with a boolean
\* and never with an exception.
C24_ProbeExceptionsContained ==
    entry = "add_cover_letter_and_submit"
        => /\ av.exc = "none"
           /\ av.apc = "exit" => av.ret \in { "True", "False" }

\* C25: check_consents_if_needed looks at no more than 6 boxes of each of
\* its 3 selectors, and a failure at one box does not end the pass: the pass
\* goes on with the next box, and a later box that is visible and unchecked
\* is checked.
C25_State ==
    hp.op = "check_consents_if_needed"
        => /\ hp.sel <= NumConsentStrategies
           /\ hp.n <= 6
           /\ hp.phase = "items" => hp.idx < hp.n
           /\ hp.checks <= 3 * 6

C25_Step ==
    (hp.op = "check_consents_if_needed" /\ hp.phase = "items" /\ ~hp.done)
        => /\ hp'.last = "check_ok" => hp'.checks = hp.checks + 1
           /\ hp.idx + 1 < hp.n
                => /\ ~hp'.done
                   /\ hp'.phase = "items"
                   /\ hp'.sel = hp.sel
                   /\ hp'.idx = hp.idx + 1
           /\ (hp.idx + 1 = hp.n /\ hp.sel < NumConsentStrategies)
                => /\ ~hp'.done
                   /\ hp'.phase = "count"
                   /\ hp'.sel = hp.sel + 1

C25_ConsentPassGoesOn ==
    [] C25_State /\ [][C25_Step]_vars

\* a box was checked after an earlier box of the pass had failed
C25_Witness ==
    /\ hp.op = "check_consents_if_needed"
    /\ hp.failed
    /\ hp.last = "check_ok"
    /\ hp.checks >= 1
    /\ hp.idx >= 1

\* C26: App.run has at most one listing page of its own at a time: a call
\* of apply_to_vacancy starts without a page, and when it ends (returning or
\* raising) page.close() has been attempted on the page it opened, before
\* run() can make the next call.
C26_State ==
    (pc = "apply" /\ av.apc = "new_page")
        => av.page = "none" /\ av.closeAttempts = 0

C26_Step ==
    /\ (pc # "apply" /\ pc' = "apply")
          => av'.apc = "new_page" /\ av'.page = "none"
    /\ (pc = "apply" /\ pc' # "apply" /\ av.page # "none")
          => av.closeAttempts = 1

C26_OneListingPage ==
    [] C26_State /\ [][C26_Step]_vars

\* the second listing of the run has its page open, the first call is over
C26_Witness ==
    /\ pc = "apply"
    /\ stats.opened = 2
    /\ Len(markSeenCalls) = 1
    /\ av.page = "open"

\* C27: mark_seen inserts if absent: after a call every row that was in the
\* table is there with the first_seen_at it had, no row but that of the id
\* marked is new, marking an id that is present changes nothing, and after
\* a call that did not fail is_seen(id) is true.
C27_InsertIfAbsent ==
    (hp.op = "mark_seen" /\ hp.calls >= 1)
        => /\ \A id \in DOMAIN hp.prev :
                 id \in DOMAIN hp.rows /\ hp.rows[id] = hp.prev[id]
           /\ DOMAIN hp.rows \subseteq DOMAIN hp.prev \cup { hp.arg }
           /\ hp.arg \in DOMAIN hp.prev => hp.rows = hp.prev
           /\ ~hp.failed => hp.arg \in DOMAIN hp.rows

\* the id was inserted by the first call and marked again by the second,
\* next to a row of another id
C27_Witness ==
    /\ hp.op = "mark_seen"
    /\ hp.calls = 2
    /\ ~hp.failed
    /\ hp.arg \in DOMAIN hp.prev
    /\ hp.rows[hp.arg] = SetMax(OldStamps) + 1
    /\ DOMAIN hp.rows # { hp.arg }

\* C28: apply_to_vacancy returns SUCCESS only when, after a submit click of
\* the call, a confirmation phrase was seen; an apply button that is merely
\* no longer visible after the click does not make a SUCCESS.
C28_SuccessNeedsPhrase ==
    (entry = "apply_to_vacancy" /\ av.apc = "acls_return" /\ sb.ok)
        => /\ sb.clicks >= 1
           /\ sb.confirmed

\* C28, amended: the submission is reported as made (True from
\* add_cover_letter_and_submit, SUCCESS from apply_to_vacancy) only when,
\* after a submit click of the call, already_applied was positive: a
\* confirmation phrase was visible, or no apply button was.
C28_SuccessNeedsPositiveCheck ==
    (av.apc = "acls_return" /\ sb.ok)
        => /\ sb.clicks >= 1
           /\ sb.confirmed \/ sb.gone

\* SUCCESS is about to be returned after a click that no phrase confirmed:
\* the apply button was not visible any more
C28_Witness ==
    /\ entry = "apply_to_vacancy"
    /\ av.apc = "acls_return"
    /\ sb.ok
    /\ sb.clicks = 1
    /\ ~sb.confirmed
    /\ sb.gone

\* C29: every listing App.run started to process (apply_to_vacancy called,
\* or the dry-run branch taken) is passed to mark_seen, whatever came of it,
\* before run() considers the next listing or ends: outside the call and the
\* mark_seen step, as many ids were passed to mark_seen as listings were
\* opened.
C29_StartedIsMarked ==
    pc \notin { "apply", "mark" } => Len(markSeenCalls) = stats.opened

\* the same while run() has not been left by an exception
C29_MarkedWhileRunning ==
    pc \notin { "apply", "mark", "crashed" } => Len(markSeenCalls) = stats.opened

\* No call of mark_seen of this run has failed so far: every id passed to it
\* is in the store.  (An id whose mark_seen failed stays out of the store
\* until a later mark_seen of the same id stores it.)
NoMarkSeenFailed ==
    \A i \in 1..Len(markSeenCalls) : markSeenCalls[i] \in seen

\* C30: within one run, whatever the search pages list (different URLs of
\* one id included), no id is passed to apply_to_vacancy twice, as long as
\* no mark_seen has failed: when run() calls apply_to_vacancy, the id of the
\* listing is not one it has processed before in this run.
C30_Step ==
    (~dry_run /\ pc = "iter" /\ pc' = "apply" /\ NoMarkSeenFailed)
        => \A i \in 1..Len(markSeenCalls) :
              markSeenCalls[i] # extract_vacancy_id(vurl)

C30_NoIdAppliedTwice ==
    [][C30_Step]_vars

\* a second URL of a listing that was opened and marked is skipped
C30_Witness ==
    /\ ~dry_run
    /\ pc = "for"
    /\ markSeenCalls = << extract_vacancy_id(UrlA) >>
    /\ extract_vacancy_id(vurl) = extract_vacancy_id(UrlA)
    /\ stats.opened = 1
    /\ stats.skipped_seen = 1

\* C31: after each completed listing iteration of App.run (and before the
\* first), opened = applies_done + skipped_already + errors,
\* opened + skipped_seen <= found_links, and the local applies_done equals
\* stats.applies_done.
C31_CountersAgree ==
    pc \in { "while", "load", "for", "iter", "report", "done" }
        => /\ stats.opened = stats.applies_done + stats.skipped_already + stats.errors
           /\ stats.opened + stats.skipped_seen <= stats.found_links
           /\ applies_done = stats.applies_done

\* a page of two listings: one was opened and ended in ERROR, the other was
\* skipped as seen
C31_Witness ==
    /\ pc = "for"
    /\ links = << >>
    /\ stats.found_links = 2
    /\ stats.opened = 1
    /\ stats.errors = 1
    /\ stats.skipped_seen = 1

\* C32: the search loop of App.run ends, for every sequence of pages,
\* provided each listing call returns (a call that raises ends run() by the
\* exception).  page_num goes up by one on every iteration that does not
\* leave the loop and not otherwise, a page is loaded only with
\* page_num < max_pages, the loop is left as soon as empty_pages_tolerance
\* pages in a row had no links, and a page with links sets the count of
\* empty pages back to 0.
C32_State ==
    /\ page_num <= cfg.max_pages
    /\ pc \in { "load", "for", "iter", "apply", "mark", "count" }
          => page_num < cfg.max_pages
    /\ pc \in { "while", "load", "for", "iter", "apply", "mark", "count" }
          => empty_pages < cfg.empty_pages_tolerance

C32_Step ==
    /\ IF pc \in { "load", "for" } /\ pc' = "while"
       THEN page_num' = page_num + 1
       ELSE page_num' = page_num
    /\ (pc = "load" /\ pc' = "for")
          => empty_pages' = 0 /\ links' # << >>
    /\ (pc = "load" /\ pc' \in { "while", "report" })
          => /\ empty_pages' = empty_pages + 1
             /\ pc' = "report" <=> empty_pages' >= cfg.empty_pages_tolerance
    /\ pc # "load" => empty_pages' = empty_pages

C32_SearchLoopTerminates ==
    /\ [] C32_State
    /\ [][C32_Step]_vars
    /\ <>(pc \in { "done", "crashed" })

\* two empty pages in a row, with a tolerance of two, ended the search
C32_Witness ==
    /\ pc = "report"
    /\ cfg.empty_pages_tolerance = 2
    /\ empty_pages = 2
    /\ page_num = 1

\* C33: once the stop flag is set it stays set, and run() enters neither
\* the body of the listing loop nor the loading of a search page again: the
\* only listing it still processes, and the only page it still loads, is
\* the one that was past its check of the flag when the signal came.
C33_Step ==
    /\ stop => stop'
    /\ (stop /\ pc # "iter") => pc' # "iter"
    /\ (stop /\ pc # "load") => pc' # "load"
    /\ (stop /\ pc # "apply" /\ pc' = "apply") => pc = "iter"

C33_StopEndsSoon ==
    [][C33_Step]_vars

\* the signal came between the check of the flag and the call: the listing
\* is processed
C33_Witness ==
    /\ stop
    /\ ~stopInFlight
    /\ pc = "apply"
    /\ av.apc = "goto"

\* C34: run() calls _append_vacancy_to_csv exactly when the result of the
\* listing is SUCCESS, once for that listing, with a non-empty title field
\* (the URL when the title is empty); whether or not the row was written,
\* the listing is counted in applies_done and run() goes on with the loop.
C34_State ==
    /\ \A i \in 1..Len(csv) : csv[i].title # ""
    /\ Len(csv) <= stats.opened
    /\ Len(csv) <= applies_done

C34_Step ==
    /\ (csv' # csv) =>
          /\ pc = "count"
          /\ result.result = SUCCESS
          /\ Len(csv') = Len(csv) + 1
          /\ SubSeq(csv', 1, Len(csv)) = csv
          /\ csv'[Len(csv')].title =
                IF result.title = "" THEN "<url>" ELSE result.title
    /\ (pc = "count" /\ pc' # "count" /\ result.result = SUCCESS) =>
          /\ csv' # csv
          /\ applies_done' = applies_done + 1
          /\ stats'.applies_done = stats.applies_done + 1
          /\ pc' = "for"
    /\ applies_done' >= applies_done

C34_CsvRowPerSuccess ==
    /\ [] C34_State
    /\ [][C34_Step]_vars

\* the append failed, the listing is counted and the loop goes on
C34_Witness ==
    /\ pc = "for"
    /\ Len(csv) = 1
    /\ ~csv[1].written
    /\ applies_done = 1
    /\ stats.applies_done = 1

\* C35: one call of add_cover_letter_and_submit clicks the submit control at
\* most 6 times: at most twice in each of its cycles, the second click only
\* as the retry after the first try raised, and never again once a check of
\* already_applied was positive.
C35_State ==
    /\ sb.clicks <= 6
    /\ av.apc \in { "submit_probe", "submit_none" } => sb.clicks <= 2 * sb.cycle
    /\ av.apc = "submit_click" =>
          sb.clicks <= 2 * sb.cycle + (IF sb.retry THEN 1 ELSE 0)
    /\ av.apc \in { "verify1", "verify2" } =>
          sb.clicks <= 2 * sb.cycle + (IF sb.retry THEN 2 ELSE 1)

C35_Step ==
    /\ sb'.clicks > sb.clicks =>
          /\ sb'.clicks = sb.clicks + 1
          /\ av.apc = "submit_click"
          /\ ~sb.ok
    /\ sb.ok => sb'.clicks <= sb.clicks

C35_AtMostSixClicks ==
    /\ [] C35_State
    /\ [][C35_Step]_vars

\* six clicks, and the check after the last of them was positive
C35_Witness ==
    /\ sb.clicks = 6
    /\ sb.ok
    /\ av.apc = "acls_return"

\* C36: check_consents_if_needed never unchecks a box that is checked, and
\* a second call on a page that nothing else changed leaves every checkbox
\* as the first call left it.
C36_ConsentsMonotoneIdempotent ==
    hp.op = "check_consents_twice" =>
        /\ \A b \in ConsentBoxIds :
              /\ BoxIsChecked(hp.before.kind[b]) => BoxIsChecked(hp.first.kind[b])
              /\ BoxIsChecked(hp.first.kind[b]) => BoxIsChecked(hp.page.kind[b])
        /\ hp.passes = 2 => hp.page = hp.first

\* two calls on a page with a checked box, where the first call checked
\* another box
C36_Witness ==
    /\ hp.op = "check_consents_twice"
    /\ hp.passes = 2
    /\ \E b \in ConsentBoxIds : hp.before.kind[b] = "checked"
    /\ \E b \in ConsentBoxIds :
          hp.before.kind[b] = "unchecked" /\ hp.first.kind[b] = "checked"

\* C37: in a dry run, whatever the search pages list, run() never calls
\* apply_to_vacancy: no listing page is opened and no submit control is
\* clicked; each listing that is not in the seen-store is passed to
\* mark_seen and counted as a SUCCESS in applies_done, which ends the run
\* at max_applies.
C37_State ==
    dry_run =>
        /\ pc # "apply"
        /\ av = AvIdle
        /\ sb = SbIdle
        /\ did = {}
        /\ applies_done > 0 => applies_done <= cfg.max_applies
        /\ pc \notin { "mark", "count" } =>
              /\ Len(markSeenCalls) = stats.opened
              /\ applies_done = stats.opened

C37_Step ==
    dry_run =>
        /\ (pc = "iter" /\ pc' # "iter" /\ extract_vacancy_id(vurl) \notin seen) =>
              /\ pc' = "mark"
              /\ result'.result = SUCCESS
        /\ (pc = "mark" /\ pc' # "mark") =>
              /\ pc' = "count"
              /\ markSeenCalls' = Append(markSeenCalls, extract_vacancy_id(vurl))
        /\ (pc = "count" /\ pc' # "count") =>
              /\ pc' = "for"
              /\ applies_done' = applies_done + 1

C37_DryRunOpensNothing ==
    /\ [] C37_State
    /\ [][C37_Step]_vars

\* a dry run that has processed a listing and reached the cap while the
\* search page lists more
C37_Witness ==
    /\ dry_run
    /\ pc = "for"
    /\ applies_done = 1
    /\ applies_done = cfg.max_applies
    /\ Len(markSeenCalls) = 1
    /\ links # << >>

====
